---- MODULE Spec2Model ----
(***************************************************************************)
(* Model of SolarDashboard.py: the module-level state (the dataframe df    *)
(* and the shared figure fig) and the Dash callback _refresh_plots, one    *)
(* action per statement of the callback.  Times and cycle lengths are      *)
(* integers in one common unit; a NaN is the value NaN below.              *)
(***************************************************************************)
EXTENDS Integers, Sequences, FiniteSets, TLC

\* ---- bounds of the model ------------------------------------------------
MaxLen == 3
MaxStride == 2
MaxCycle == 2
NumThreads == 2

\* ---- program constants --------------------------------------------------
InitCycle == 11
YearMin == 1749
YearMax == 2022
FirstTime == 1749
NaN == 0 - 1

Calls == 1..NumThreads
Strides == 0..MaxStride
CycleLengths == 0..MaxCycle
Windows == {YearMin, YearMax} \X {YearMin, YearMax}

VARIABLES df, fig, pc, args, smoothed_df, year_label, var_fig, entry, last

vars == <<df, fig, pc, args, smoothed_df, year_label, var_fig, entry, last>>

\* ---- the loaded table ---------------------------------------------------
\* n monthly rows in chronological order: 'Date in Fraction of Year' (t)
\* strictly increasing, 'Monthly Mean' (v).
Series(n) == [i \in 1..n |-> [t |-> FirstTime + (i - 1), v |-> 10 * i]]

Column(rows, f) == [i \in 1..Len(rows) |-> rows[i][f]]

\* ---- pure helpers of the callback ---------------------------------------
\* numpy float64 % python number: a zero divisor yields nan (no exception);
\* for a positive divisor the result is in [0, m).
PyModNoFold(x, m) == x
PyMod(x, m) == IF m = 0 THEN NaN ELSE x % m

\* df.apply(lambda row: row['Date in Fraction of Year'] % L, axis=1)
apply_mod(rows, L) == [i \in 1..Len(rows) |-> PyMod(rows[i].t, L)]

\* rows[start::step] for step > 0, start a 1-based position
RECURSIVE SliceFrom(_, _, _)
SliceFrom(rows, start, step) ==
    IF start > Len(rows) THEN <<>>
    ELSE <<rows[start]>> \o SliceFrom(rows, start + step, step)

\* df.iloc[::step] for step > 0
iloc_step_skip_first(rows, step) == SliceFrom(rows, 1 + step, step)
iloc_step(rows, step) == SliceFrom(rows, 1, step)

\* go.Scatter(x=list(...), y=list(...), name='Smoothed')
Scatter(rows) == [name |-> "Smoothed", x |-> Column(rows, "t"), y |-> Column(rows, "v")]

\* px.line(df, x='Date in Fraction of Year', y='Monthly Mean'): one trace
px_line(d) ==
    [xaxis_range |-> <<>>,
     data |-> << [name |-> "Monthly Mean", x |-> Column(d.rows, "t"),
                  y |-> Column(d.rows, "v")] >>]

\* fig.update_xaxes(range=[lo, hi])
update_xaxes(f, w) == [f EXCEPT !.xaxis_range = <<w[1], w[2]>>]

\* fig.data = fig.data[0:1]
clear_traces_keep_all(f) == f
clear_traces_drop_first(f) == [f EXCEPT !.data = SubSeq(f.data, 2, Len(f.data))]
clear_traces(f) == [f EXCEPT !.data = SubSeq(f.data, 1, 1)]

\* fig.add_trace(tr)
add_trace_front(f, tr) == [f EXCEPT !.data = <<tr>> \o f.data]
add_trace_cropped(f, tr) ==
    LET keep == {i \in 1..Len(tr.x) : /\ Len(f.xaxis_range) = 2
                                      /\ f.xaxis_range[1] <= tr.x[i]
                                      /\ tr.x[i] <= f.xaxis_range[2]}
        lo == CHOOSE i \in keep : \A j \in keep : i <= j
        hi == CHOOSE i \in keep : \A j \in keep : j <= i
        Sel(q) == IF keep = {} THEN <<>> ELSE SubSeq(q, lo, hi)
    IN  [f EXCEPT !.data = Append(f.data, [tr EXCEPT !.x = Sel(tr.x), !.y = Sel(tr.y)])]
add_trace(f, tr) == [f EXCEPT !.data = Append(f.data, tr)]

\* df['Variability'] = col
assign_variability(d, col) == [d EXCEPT !.Variability = col]

\* px.scatter(df, x='Variability', y='Monthly Mean', title=f'... {L} Years')
px_scatter(d, L) ==
    [x |-> d.Variability, y |-> Column(d.rows, "v"), title_cycle |-> L]

\* str(n) for n >= 0, as the sequence of its decimal digits
Digits == <<"0", "1", "2", "3", "4", "5", "6", "7", "8", "9">>
RECURSIVE Str(_)
Str(n) == IF n < 10 THEN <<Digits[n + 1]>>
          ELSE Str(n \div 10) \o <<Digits[(n % 10) + 1]>>

\* f'You are currently viewing the years {w[0]} to {w[1]}!'
format_label(w) ==
    [prefix |-> "You are currently viewing the years ", from |-> Str(w[1]),
     sep |-> " to ", to |-> Str(w[2]), suffix |-> "!"]

\* ---- values of unset locals ---------------------------------------------
NoArgs == [year_slider_value |-> <<>>, smoothness_value |-> 0, cycle_length_value |-> 0]
NoLabel == [prefix |-> "", from |-> <<>>, sep |-> "", to |-> <<>>, suffix |-> ""]
NoVarFig == [x |-> <<>>, y |-> <<>>, title_cycle |-> 0]
NoFig == [xaxis_range |-> <<>>, data |-> <<>>]
NoDf == [rows |-> <<>>, Variability |-> <<>>]
NoEntry == [fig |-> NoFig, df |-> NoDf]
NoResult == [fig |-> NoFig, var_fig |-> NoVarFig, year_label |-> NoLabel]
NoResponse == [status |-> "none", args |-> NoArgs, result |-> NoResult]

\* ---- the whole callback run on its own, from figure f0 and table d0 -----
RunAlone(p, f0, d0) ==
    LET f1 == update_xaxes(f0, p.year_slider_value)
        f2 == clear_traces(f1)
        f3 == add_trace(f2, Scatter(iloc_step(d0.rows, p.smoothness_value)))
        d1 == assign_variability(d0, apply_mod(d0.rows, p.cycle_length_value))
    IN  [fig |-> f3,
         var_fig |-> px_scatter(d1, p.cycle_length_value),
         year_label |-> format_label(p.year_slider_value)]

\* ---- state after the module body has run --------------------------------
LoadedDf(n) == [rows |-> Series(n), Variability |-> apply_mod(Series(n), InitCycle)]

Init ==
    /\ \E n \in 1..MaxLen : df = LoadedDf(n)
    /\ fig = px_line(df)
    /\ pc = [c \in Calls |-> "idle"]
    /\ args = [c \in Calls |-> NoArgs]
    /\ smoothed_df = [c \in Calls |-> <<>>]
    /\ year_label = [c \in Calls |-> NoLabel]
    /\ var_fig = [c \in Calls |-> NoVarFig]
    /\ entry = [c \in Calls |-> NoEntry]
    /\ last = NoResponse

\* ---- dispatch of the callback -------------------------------------------
\* the invocation runs on the first free worker c
Enter(c) ==
    /\ pc[c] = "idle"
    /\ \A d \in Calls : d < c => pc[d] # "idle"
    /\ \E w \in Windows, s \in Strides, L \in CycleLengths :
          args' = [args EXCEPT ![c] = [year_slider_value |-> w, smoothness_value |-> s,
                                       cycle_length_value |-> L]]
    /\ pc' = [pc EXCEPT ![c] = "update_xaxes"]
    /\ entry' = [entry EXCEPT ![c] = [fig |-> fig, df |-> df]]
    /\ UNCHANGED <<df, fig, smoothed_df, year_label, var_fig, last>>

\* a callback invoked while no other invocation is in flight
Dispatch(c) ==
    /\ \A d \in Calls : pc[d] = "idle"
    /\ Enter(c)

\* a callback invoked on another thread while an invocation is in flight
\* (the burst of events fired before the first response is delivered)
DispatchOverlap(c) ==
    /\ \E d \in Calls : pc[d] # "idle"
    /\ last.status = "none"
    /\ Enter(c)

\* ---- the statements of _refresh_plots -----------------------------------
Leave(c) ==
    /\ pc' = [pc EXCEPT ![c] = "idle"]
    /\ args' = [args EXCEPT ![c] = NoArgs]
    /\ smoothed_df' = [smoothed_df EXCEPT ![c] = <<>>]
    /\ year_label' = [year_label EXCEPT ![c] = NoLabel]
    /\ var_fig' = [var_fig EXCEPT ![c] = NoVarFig]
    /\ entry' = [entry EXCEPT ![c] = NoEntry]

UpdateXaxes(c) ==
    /\ pc[c] = "update_xaxes"
    /\ fig' = update_xaxes(fig, args[c].year_slider_value)
    /\ pc' = [pc EXCEPT ![c] = "clear"]
    /\ UNCHANGED <<df, args, smoothed_df, year_label, var_fig, entry, last>>

ClearTraces(c) ==
    /\ pc[c] = "clear"
    /\ fig' = clear_traces(fig)
    /\ pc' = [pc EXCEPT ![c] = "iloc"]
    /\ UNCHANGED <<df, args, smoothed_df, year_label, var_fig, entry, last>>

\* df.iloc[::n]; a zero step raises ValueError and ends the invocation
Smooth(c) ==
    /\ pc[c] = "iloc"
    /\ args[c].smoothness_value # 0
    /\ smoothed_df' = [smoothed_df EXCEPT ![c] = iloc_step(df.rows, args[c].smoothness_value)]
    /\ pc' = [pc EXCEPT ![c] = "add_trace"]
    /\ UNCHANGED <<df, fig, args, year_label, var_fig, entry, last>>

SmoothRaises(c) ==
    /\ pc[c] = "iloc"
    /\ args[c].smoothness_value = 0
    /\ last' = [status |-> "ValueError", args |-> args[c], result |-> NoResult]
    /\ Leave(c)
    /\ UNCHANGED <<df, fig>>

AddTrace(c) ==
    /\ pc[c] = "add_trace"
    /\ fig' = add_trace(fig, Scatter(smoothed_df[c]))
    /\ pc' = [pc EXCEPT ![c] = "label"]
    /\ UNCHANGED <<df, args, smoothed_df, year_label, var_fig, entry, last>>

YearLabel(c) ==
    /\ pc[c] = "label"
    /\ year_label' = [year_label EXCEPT ![c] = format_label(args[c].year_slider_value)]
    /\ pc' = [pc EXCEPT ![c] = "fold"]
    /\ UNCHANGED <<df, fig, args, smoothed_df, var_fig, entry, last>>

Refold(c) ==
    /\ pc[c] = "fold"
    /\ df' = assign_variability(df, apply_mod(df.rows, args[c].cycle_length_value))
    /\ pc' = [pc EXCEPT ![c] = "scatter"]
    /\ UNCHANGED <<fig, args, smoothed_df, year_label, var_fig, entry, last>>

VarScatter(c) ==
    /\ pc[c] = "scatter"
    /\ var_fig' = [var_fig EXCEPT ![c] = px_scatter(df, args[c].cycle_length_value)]
    /\ pc' = [pc EXCEPT ![c] = "return"]
    /\ UNCHANGED <<df, fig, args, smoothed_df, year_label, entry, last>>

\* return fig, var_fig, year_label: fig is the shared figure as it is now
Return(c) ==
    /\ pc[c] = "return"
    /\ last' = [status |-> "ok", args |-> args[c],
                result |-> [fig |-> fig, var_fig |-> var_fig[c],
                            year_label |-> year_label[c]]]
    /\ Leave(c)
    /\ UNCHANGED <<df, fig>>

Step(c) ==
    \/ UpdateXaxes(c)
    \/ ClearTraces(c)
    \/ Smooth(c)
    \/ SmoothRaises(c)
    \/ AddTrace(c)
    \/ YearLabel(c)
    \/ Refold(c)
    \/ VarScatter(c)
    \/ Return(c)

\* one invocation at a time
Next == \E c \in Calls : Dispatch(c) \/ Step(c)

Spec == Init /\ [][Next]_vars

\* invocations on several threads
NextThreaded == \E c \in Calls : Dispatch(c) \/ DispatchOverlap(c) \/ Step(c)

SpecThreaded == Init /\ [][NextThreaded]_vars

\* ======================================================================
\* Properties
\* ======================================================================
AllIdle == \A c \in Calls : pc[c] = "idle"
Loaded == LoadedDf(Len(df.rows))

\* smallest k with k * s >= n
CeilDiv(n, s) == CHOOSE k \in 0..n : k * s >= n /\ (k = 0 \/ (k - 1) * s < n)

\* the number a digit sequence denotes
DigitValue(ch) == CHOOSE d \in 0..9 : Digits[d + 1] = ch
RECURSIVE Parse(_)
Parse(q) == IF Len(q) = 0 THEN 0
            ELSE 10 * Parse(SubSeq(q, 1, Len(q) - 1)) + DigitValue(q[Len(q)])

\* the overlay trace of a returned primary figure
Overlay(f) == f.data[Len(f.data)]

C2_FoldedPhaseAndOrder ==
    (last.status = "ok" /\ last.args.cycle_length_value > 0) =>
        LET L == last.args.cycle_length_value
            rows == df.rows
            vf == last.result.var_fig
        IN  /\ Len(vf.x) = Len(rows)
            /\ Len(vf.y) = Len(rows)
            /\ \A i \in 1..Len(rows) :
                  /\ vf.x[i] >= 0
                  /\ vf.x[i] < L
                  /\ \E k \in 0..rows[i].t : k * L + vf.x[i] = rows[i].t
                  /\ vf.y[i] = rows[i].v

\* a fold whose phases are not in ascending order
C2_Witness ==
    /\ last.status = "ok"
    /\ last.args.cycle_length_value = 2
    /\ Len(df.rows) = 3
    /\ last.result.var_fig.x[1] > last.result.var_fig.x[2]

\* C3: a recompute that completes with the same parameters as the call
\* completed just before it yields the same outcome (views and label).
C3_Idempotent ==
    [][\A c \in Calls :
          (pc[c] # "idle" /\ pc'[c] = "idle" /\ last.status # "none"
              /\ last.args = args[c]) => last' = last]_vars

C3_Witness ==
    \E c \in Calls :
        /\ pc[c] = "return"
        /\ last.status = "ok"
        /\ last.args = args[c]
        /\ args[c].smoothness_value = 2
        /\ Len(df.rows) = 3

\* C4: a recompute with stride = 0, cycleLength = 0 or windowStart > windowEnd
\* is rejected (no view is returned) and the stored series is unmodified.
Invalid(p) ==
    \/ p.smoothness_value = 0
    \/ p.cycle_length_value = 0
    \/ p.year_slider_value[1] > p.year_slider_value[2]

C4_InvalidParamsRejected ==
    (last.status # "none" /\ Invalid(last.args)) =>
        /\ last.status # "ok"
        /\ last.result = NoResult
        /\ df = Loaded

\* C5: no recompute mutates the stored table: it is what it was after load.
C5_SeriesNeverMutated == df = Loaded

\* C6: with invocations interleaved, each call returns what it returns
\* alone: a folded view of its own cycleLength and a primary view with its
\* own window range and exactly one overlay trace built from its own stride.
C6_InterleavedCallsIsolated ==
    last.status = "ok" =>
        LET p == last.args
            r == last.result
        IN  /\ r.var_fig.x = apply_mod(df.rows, p.cycle_length_value)
            /\ r.var_fig.title_cycle = p.cycle_length_value
            /\ r.fig.xaxis_range = p.year_slider_value
            /\ Len(r.fig.data) = 2
            /\ r.fig.data[2] = Scatter(iloc_step(df.rows, p.smoothness_value))
            /\ r.year_label = format_label(p.year_slider_value)

\* C7: whatever calls came before, a recompute with parameters p returns
\* what a recompute with p returns as the very first call after load.
C7_IndependentOfHistory ==
    last.status = "ok" => last.result = RunAlone(last.args, px_line(Loaded), Loaded)

\* a call about to return that started from a figure and table other
\* than the loaded ones
C7_Witness ==
    \E c \in Calls :
        /\ pc[c] = "return"
        /\ Len(entry[c].fig.data) = 2
        /\ entry[c].fig.xaxis_range # args[c].year_slider_value
        /\ entry[c].fig.data[2] # Scatter(smoothed_df[c])
        /\ entry[c].df # Loaded
        /\ entry[c].df # df

\* C8: the window only reports: a recompute with the stride and cycleLength
\* of the call before it returns the same overlay and folded points whatever
\* the two windows are; the visible range is the two bounds given and the
\* label embeds those two bounds.
C8_WindowOnlyReported ==
    [][\A c \in Calls :
          (pc[c] = "return" /\ pc'[c] = "idle") =>
              /\ last'.result.fig.xaxis_range = args[c].year_slider_value
              /\ Parse(last'.result.year_label.from) = args[c].year_slider_value[1]
              /\ Parse(last'.result.year_label.to) = args[c].year_slider_value[2]
              /\ (/\ last.status = "ok"
                  /\ last.args.smoothness_value = args[c].smoothness_value
                  /\ last.args.cycle_length_value = args[c].cycle_length_value)
                 => /\ last'.result.fig.data = last.result.fig.data
                    /\ last'.result.var_fig = last.result.var_fig]_vars

\* a call about to return whose window is narrower than, and leaves out
\* rows shown by, the call before it, stride and cycleLength being equal
C8_Witness ==
    \E c \in Calls :
        /\ pc[c] = "return"
        /\ last.status = "ok"
        /\ last.args.smoothness_value = args[c].smoothness_value
        /\ last.args.cycle_length_value = args[c].cycle_length_value
        /\ last.args.year_slider_value = <<YearMin, YearMax>>
        /\ args[c].year_slider_value = <<YearMin, YearMin>>
        /\ Len(smoothed_df[c]) >= 2

\* C9: a recompute that is rejected leaves every retained piece of view
\* state (the figure's axis range and traces, the folded column) as it was
\* when the call began.
C9_FailureAllOrNothing ==
    [][\A c \in Calls :
          (pc[c] # "idle" /\ pc'[c] = "idle" /\ last'.status # "ok") =>
              /\ fig' = entry[c].fig
              /\ df' = entry[c].df]_vars

\* C10: after every completed call the primary figure holds exactly two
\* traces: the original full-series line first, then the overlay built
\* from the stride of the most recent call.
C10_ExactlyTwoTraces ==
    (AllIdle /\ last.status = "ok") =>
        /\ Len(fig.data) = 2
        /\ fig.data[1].name = "Monthly Mean"
        /\ fig.data[1].x = Column(df.rows, "t")
        /\ fig.data[1].y = Column(df.rows, "v")
        /\ fig.data[2].name = "Smoothed"
        /\ fig.data[2].x = Column(SliceFrom(df.rows, 1, last.args.smoothness_value), "t")
        /\ fig.data[2].y = Column(SliceFrom(df.rows, 1, last.args.smoothness_value), "v")

\* a call about to return that began with an overlay of another stride on
\* the figure
C10_Witness ==
    \E c \in Calls :
        /\ pc[c] = "return"
        /\ Len(entry[c].fig.data) = 2
        /\ Len(entry[c].fig.data[2].x) # Len(smoothed_df[c])
        /\ Len(fig.data) = 2

====
